---- MODULE Spec2Model ----
(***************************************************************************)
(* DA-RNN forward passes (kaelzhang/keras-DA-RNN).                         *)
(*                                                                         *)
(* The model follows the two source files:                                 *)
(*   da_rnn/torch/model.py  Encoder, Decoder (explicit per-step loops)      *)
(*   da_rnn/model.py        DARNN (framework-native variant)                *)
(*                                                                         *)
(* A tensor is modelled by its shape (a sequence of naturals) and, for the *)
(* recurrent state and what is computed from it, by its provenance: the    *)
(* call that allocated it and the sequence of recurrent cell updates it    *)
(* went through.  A framework operation is modelled by what it does to the *)
(* shape, and by the shapes it refuses (Err).  Attention weights are       *)
(* modelled numerically, as exact fractions, under SpecAttn.               *)
(***************************************************************************)
EXTENDS Integers, Sequences, FiniteSets, TLC

\* ------------------------------------------------------------------ bounds
MaxT == 3
MaxBatch == 2
MaxDim == 2
MaxCalls == 2
MaxScore == 1

\* ------------------------------------------------------- tensor shapes
\* The shape of a refused operation.  Every operation propagates it.
Err == <<-1>>

IsErr(s) == s = Err

RECURSIVE Prod(_)
Prod(s) == IF s = <<>> THEN 1 ELSE Head(s) * Prod(Tail(s))

\* torch.cat((a, b), dim): every axis but dim must agree.  dim is 0-based.
Cat(a, b, dim) ==
    IF IsErr(a) \/ IsErr(b) THEN Err
    ELSE IF Len(a) # Len(b) \/ dim + 1 > Len(a) THEN Err
    ELSE IF \E i \in 1..Len(a) : i # dim + 1 /\ a[i] # b[i] THEN Err
    ELSE [i \in 1..Len(a) |-> IF i = dim + 1 THEN a[i] + b[i] ELSE a[i]]

\* a.permute(*perm); perm is 0-based.
Permute(a, perm) ==
    IF IsErr(a) THEN Err
    ELSE IF Len(perm) # Len(a) THEN Err
    ELSE [i \in 1..Len(a) |-> a[perm[i] + 1]]

\* a.repeat(*reps) with as many repeats as axes.
Repeat(a, reps) ==
    IF IsErr(a) THEN Err
    ELSE IF Len(reps) # Len(a) THEN Err
    ELSE [i \in 1..Len(a) |-> a[i] * reps[i]]

\* torch.nn.Linear(in_features, out_features): a layer is its two sizes.
Linear(in_features, out_features) == [inf |-> in_features, outf |-> out_features]

\* layer(a) for a Linear layer: the last axis must be in_features.
ApplyLinear(layer, a) ==
    IF IsErr(a) THEN Err
    ELSE IF Len(a) = 0 THEN Err
    ELSE IF a[Len(a)] # layer.inf THEN Err
    ELSE [i \in 1..Len(a) |-> IF i = Len(a) THEN layer.outf ELSE a[i]]

\* torch.tanh(a): elementwise.
Tanh(a) == a

\* a.view(*s): the number of elements must agree.
View(a, s) ==
    IF IsErr(a) THEN Err
    ELSE IF Prod(a) # Prod(s) THEN Err
    ELSE s

\* The shape of torch.softmax(a, dim).
SoftmaxShape(a, dim) ==
    IF IsErr(a) THEN Err
    ELSE IF dim + 1 > Len(a) THEN Err
    ELSE a

\* a.unsqueeze(dim)
Unsqueeze(a, dim) ==
    IF IsErr(a) THEN Err
    ELSE IF dim > Len(a) THEN Err
    ELSE [i \in 1..(Len(a) + 1) |->
            IF i < dim + 1 THEN a[i] ELSE IF i = dim + 1 THEN 1 ELSE a[i - 1]]

\* a.squeeze(dim): the axis is dropped only if its size is 1.
Squeeze(a, dim) ==
    IF IsErr(a) THEN Err
    ELSE IF dim + 1 > Len(a) THEN Err
    ELSE IF a[dim + 1] # 1 THEN a
    ELSE [i \in 1..(Len(a) - 1) |-> IF i < dim + 1 THEN a[i] ELSE a[i + 1]]

\* torch.bmm(a, b): (b, k, j) x (b, j, l) -> (b, k, l)
Bmm(a, b) ==
    IF IsErr(a) \/ IsErr(b) THEN Err
    ELSE IF Len(a) # 3 \/ Len(b) # 3 THEN Err
    ELSE IF a[1] # b[1] \/ a[3] # b[2] THEN Err
    ELSE <<a[1], a[2], b[3]>>

\* a[:, t, :] of a 3-axis tensor; t is 0-based and must be inside axis 1.
SliceTime(a, t) ==
    IF IsErr(a) THEN Err
    ELSE IF Len(a) # 3 THEN Err
    ELSE IF t >= a[2] THEN Err
    ELSE <<a[1], a[3]>>

\* a * b of two 2-axis tensors, with the framework's broadcasting.
Mul(a, b) ==
    IF IsErr(a) \/ IsErr(b) THEN Err
    ELSE IF Len(a) # 2 \/ Len(b) # 2 THEN Err
    ELSE IF \E i \in 1..2 : a[i] # b[i] /\ a[i] # 1 /\ b[i] # 1 THEN Err
    ELSE [i \in 1..2 |-> IF a[i] = 1 THEN b[i] ELSE a[i]]

\* torch.nn.LSTM(input_size, hidden_size), one layer.
LSTM(input_size, hidden_size) == [inf |-> input_size, hid |-> hidden_size]

\* lstm(x, (h, c)) for x of shape (1, batch, input_size): the shape of the new
\* hidden and cell state, (1, batch, hidden_size).
ApplyLSTM(lstm, x, h, c) ==
    IF IsErr(x) \/ IsErr(h) \/ IsErr(c) THEN Err
    ELSE IF Len(x) # 3 THEN Err
    ELSE IF x[3] # lstm.inf THEN Err
    ELSE IF h # <<1, x[2], lstm.hid>> \/ c # <<1, x[2], lstm.hid>> THEN Err
    ELSE <<1, x[2], lstm.hid>>

\* ------------------------------------------------------------------ state
VARIABLES
    inst,            \* the constructed instance (self), or NoInst
    ctor,            \* the outcome of the last constructor call
    pc,              \* "idle", "enc" / "dec" (inside a forward loop), "done"
    calls,           \* forward calls begun on inst
    X,               \* Encoder.forward's argument (its shape)
    Y,               \* Decoder.forward's argument (its shape)
    X_encoded,       \* Encoder.forward's buffer / Decoder.forward's argument
    batch_size,
    t,               \* the loop variable
    hidden_state,
    cell_state,
    context_vector,
    steps,           \* the (hidden, cell) pair each executed loop iteration consumed
    shapes,          \* the intermediate shapes of the last decoder iteration
    result,          \* what the forward call returned or raised
    handed,          \* DARNN.call: the states it built and handed to its layers
    E,               \* SpecAttn: the raw attention scores
    Alpha_t,         \* SpecAttn: input-attention weights
    Beta_t           \* SpecAttn: temporal-attention weights

vars == <<inst, ctor, pc, calls, X, Y, X_encoded, batch_size, t, hidden_state,
          cell_state, context_vector, steps, shapes, result, handed,
          E, Alpha_t, Beta_t>>

attnVars == <<E, Alpha_t, Beta_t>>
callVars == <<pc, calls, X, Y, X_encoded, batch_size, t, hidden_state, cell_state,
              context_vector, steps, shapes, result, handed>>

Dims == 1..MaxDim
Batches == 1..MaxBatch

\* ------------------------------------------------------------ constructors
NoInst == [cls |-> "none", n |-> 0, T |-> 0, m |-> 0, p |-> 0, y_dim |-> 0,
           layers |-> [none |-> 0]]

\* Encoder.__init__: no check of T; the layers it creates are WU_e, v_e, lstm.
EncoderInit(n, T, m) ==
    [cls |-> "Encoder", n |-> n, T |-> T, m |-> m, p |-> 0, y_dim |-> 0,
     layers |-> [WU_e |-> Linear(m * 2 + T, T),
                 v_e  |-> Linear(T, 1),
                 lstm |-> LSTM(n, m)]]

\* DecoderInit with Equation 15's projection made as wide as the target.
DecoderInitWideInput(n, T, m, p, y_dim) ==
    [cls |-> "Decoder", n |-> n, T |-> T, m |-> m, p |-> p, y_dim |-> y_dim,
     layers |-> [WU_d   |-> Linear(p * 2 + m, m),
                 v_d    |-> Linear(m, 1),
                 linear |-> Linear(y_dim + m, y_dim),
                 lstm   |-> LSTM(1, p),
                 Wb     |-> Linear(p + m, p),
                 vb     |-> Linear(p, y_dim)]]

\* Decoder.__init__: no check of T, and no layer's size depends on T.
DecoderInit(n, T, m, p, y_dim) ==
    [cls |-> "Decoder", n |-> n, T |-> T, m |-> m, p |-> p, y_dim |-> y_dim,
     layers |-> [WU_d   |-> Linear(p * 2 + m, m),
                 v_d    |-> Linear(m, 1),
                 linear |-> Linear(y_dim + m, 1),
                 lstm   |-> LSTM(1, p),
                 Wb     |-> Linear(p + m, p),
                 vb     |-> Linear(p, y_dim)]]

\* DARNN.__init__ raises ValueError when T < 2.
DARNNRejects(T) == T < 2

\* DARNN.__init__ past the check; encoder_lstm is a Keras LSTM of m units.
DARNNInit(T, m, p) ==
    [cls |-> "DARNN", n |-> 0, T |-> T, m |-> m, p |-> p, y_dim |-> 0,
     layers |-> [encoder_lstm |-> [units |-> m]]]

\* self.<name>: Module.__getattr__ raises AttributeError for a name that
\* __init__ never set.
HasAttr(self, name) == name \in DOMAIN self.layers

\* ------------------------------------------------------------- call state
NoState == [shape |-> Err, owner |-> 0, hist |-> <<>>]
NoContext == [bound |-> FALSE, shape |-> Err, iter |-> -1, from |-> <<>>]
NoShapes == [l |-> Err, Beta_t |-> Err, context |-> Err, y_tilde |-> Err,
             lstm_in |-> Err]
NoResult == [kind |-> "none", err |-> "", shape |-> Err, hidden |-> <<>>,
             ctx_iter |-> -1, ctx_from |-> <<>>]
NoBuffer == [shape |-> Err, owner |-> 0, writes |-> <<>>]
NoHanded == [called |-> FALSE, owner |-> 0, h0 |-> Err, s0 |-> Err,
             enc_h |-> Err, enc_s |-> Err, dec_h |-> Err, dec_s |-> Err]

Raised(kind) == [NoResult EXCEPT !.kind = "error", !.err = kind]

Init ==
    /\ inst = NoInst
    /\ ctor = [cls |-> "none", T |-> 0, outcome |-> "none"]
    /\ pc = "idle"
    /\ calls = 0
    /\ X = Err
    /\ Y = Err
    /\ X_encoded = NoBuffer
    /\ batch_size = 0
    /\ t = 0
    /\ hidden_state = NoState
    /\ cell_state = NoState
    /\ context_vector = NoContext
    /\ steps = <<>>
    /\ shapes = NoShapes
    /\ result = NoResult
    /\ handed = NoHanded
    /\ E = <<>>
    /\ Alpha_t = <<>>
    /\ Beta_t = <<>>

\* Encoder(n, T, m).  T = 0 is left out: whether the zero-width layers of
\* lines 42-45 can be built is decided by the framework, not by this code.
NewEncoder ==
    /\ inst.cls = "none"
    /\ \E n \in Dims, T \in 1..MaxT, m \in Dims :
         /\ inst' = EncoderInit(n, T, m)
         /\ ctor' = [cls |-> "Encoder", T |-> T, outcome |-> "ok"]
    /\ UNCHANGED callVars
    /\ UNCHANGED attnVars

\* Decoder(n, T, m, p, y_dim, dropout).  n is stored and never read.
NewDecoder ==
    /\ inst.cls = "none"
    /\ \E T \in 0..MaxT, m \in Dims, p \in Dims, y_dim \in Dims :
         /\ inst' = DecoderInit(1, T, m, p, y_dim)
         /\ ctor' = [cls |-> "Decoder", T |-> T, outcome |-> "ok"]
    /\ UNCHANGED callVars
    /\ UNCHANGED attnVars

\* DARNN(T, m, p)
NewDARNN ==
    /\ inst.cls = "none"
    /\ \E T \in 0..MaxT, m \in Dims, p \in Dims :
         IF DARNNRejects(T)
         THEN /\ inst' = inst
              /\ ctor' = [cls |-> "DARNN", T |-> T, outcome |-> "ValueError"]
         ELSE /\ inst' = DARNNInit(T, m, p)
              /\ ctor' = [cls |-> "DARNN", T |-> T, outcome |-> "ok"]
    /\ UNCHANGED callVars
    /\ UNCHANGED attnVars

\* --------------------------------------------------------- Decoder.forward
\* torch.zeros(*shape), allocated by call number `call`.
ZeroState(shape, call) == [shape |-> shape, owner |-> call, hist |-> <<>>]

\* DecoderEntryState with the state of the previous call kept when it fits.
DecoderKeptState(b) ==
    IF hidden_state.shape = <<1, b, inst.p>> THEN hidden_state
    ELSE ZeroState(<<1, b, inst.p>>, calls + 1)

\* hidden_state / cell_state at entry: torch.zeros(1, batch_size, self.p).
DecoderEntryState(b) == ZeroState(<<1, b, inst.p>>, calls + 1)

\* for t in range(self.T - 1): the number of iterations.
DecoderRange(T) == IF T - 1 > 0 THEN T - 1 ELSE 0

\* Equations 12-16, one loop iteration: the shape of every intermediate value.
DecoderIteration(self, Yshape, Xe, h, c, tt, b) ==
    LET hs      == Repeat(Permute(Cat(h, c, 2), <<1, 0, 2>>), <<1, self.T, 1>>)
        xe      == Permute(Xe, <<1, 0, 2>>)
        l       == View(ApplyLinear(self.layers.v_d,
                        Tanh(ApplyLinear(self.layers.WU_d, Cat(hs, xe, 2)))),
                        <<b, self.T>>)
        beta    == SoftmaxShape(l, 1)
        context == Squeeze(Bmm(Unsqueeze(beta, 1), xe), 1)
        y_t     == IF IsErr(context) THEN Err ELSE SliceTime(Yshape, tt)
        y_tilde == ApplyLinear(self.layers.linear, Cat(y_t, context, 1))
        lstm_in == Unsqueeze(y_tilde, 0)
        new     == ApplyLSTM(self.layers.lstm, lstm_in, h, c)
    IN  [l |-> l, Beta_t |-> beta, context |-> context, y_tilde |-> y_tilde,
         lstm_in |-> lstm_in, new |-> new,
         err |-> IF ~IsErr(new) THEN ""
                 ELSE IF ~IsErr(context) /\ IsErr(y_t) THEN "IndexError"
                 ELSE "RuntimeError"]

\* The recurrent cell's new state: lstm(x, (hidden_state, cell_state)).
CellUpdate(state, shape, tt) ==
    [state EXCEPT !.shape = shape, !.hist = Append(state.hist, tt)]

\* DecoderFinalContext with the context recomputed from the final state.
DecoderRecomputedContext(ctx, h) ==
    [ctx EXCEPT !.iter = ctx.iter + 1, !.from = h.hist]

\* The context vector Equation 22 reads: the local variable as the loop left it.
DecoderFinalContext(ctx, h) == ctx

\* Equation 22: vb(Wb(cat((hidden_state.squeeze(0), context_vector), 1)))
DecoderOutput(self, h, ctx) ==
    ApplyLinear(self.layers.vb,
        ApplyLinear(self.layers.Wb, Cat(Squeeze(h, 0), ctx, 1)))

\* Lines 215-225: what the call returns or raises once the loop is left.
DecoderFinish(self, h, loopctx) ==
    LET ctx == DecoderFinalContext(loopctx, h)
        out == DecoderOutput(self, h.shape, ctx.shape)
    IN  IF ~ctx.bound THEN Raised("UnboundLocalError")
        ELSE IF IsErr(out) THEN Raised("RuntimeError")
        ELSE [kind |-> "tensor", err |-> "", shape |-> out, hidden |-> h.hist,
              ctx_iter |-> ctx.iter, ctx_from |-> ctx.from]

\* decoder.forward(Y, X_encoded): entry, lines 158-161.  X_encoded comes from
\* an encoder of the same m run on the same batch; its window length is free.
DecoderCall ==
    /\ inst.cls = "Decoder"
    /\ pc = "idle"
    /\ calls < MaxCalls
    /\ \E b \in Batches, Ty \in 0..MaxT, yd \in Dims, Te \in 0..MaxT :
         /\ Y' = <<b, Ty, yd>>
         /\ X_encoded' = [shape |-> <<Te, b, inst.m>>, owner |-> 0,
                          writes |-> <<>>]
         /\ batch_size' = b
         /\ hidden_state' = DecoderEntryState(b)
         /\ cell_state' = DecoderEntryState(b)
    /\ calls' = calls + 1
    /\ t' = 0
    /\ context_vector' = NoContext
    /\ steps' = <<>>
    /\ shapes' = NoShapes
    /\ result' = NoResult
    /\ pc' = "dec"
    /\ UNCHANGED <<inst, ctor, X, handed>>
    /\ UNCHANGED attnVars

\* One pass through the loop head: an iteration (lines 163-213), or the exit
\* and Equation 22 (lines 215-225).
DecoderLoop ==
    /\ pc = "dec"
    /\ IF t < DecoderRange(inst.T)
       THEN LET it == DecoderIteration(inst, Y, X_encoded.shape, hidden_state.shape,
                                       cell_state.shape, t, batch_size)
            IN  IF it.err # ""
                THEN /\ result' = Raised(it.err)
                     /\ pc' = "done"
                     /\ UNCHANGED <<t, hidden_state, cell_state, context_vector,
                                    steps, shapes>>
                ELSE /\ shapes' = [l |-> it.l, Beta_t |-> it.Beta_t,
                                   context |-> it.context, y_tilde |-> it.y_tilde,
                                   lstm_in |-> it.lstm_in]
                     /\ context_vector' = [bound |-> TRUE, shape |-> it.context,
                                           iter |-> t, from |-> hidden_state.hist]
                     /\ steps' = Append(steps, [t |-> t, hidden |-> hidden_state.hist,
                                                cell |-> cell_state.hist])
                     /\ hidden_state' = CellUpdate(hidden_state, it.new, t)
                     /\ cell_state' = CellUpdate(cell_state, it.new, t)
                     /\ t' = t + 1
                     /\ UNCHANGED <<result, pc>>
       ELSE /\ result' = DecoderFinish(inst, hidden_state, context_vector)
            /\ pc' = "done"
            /\ UNCHANGED <<t, hidden_state, cell_state, context_vector,
                           steps, shapes>>
    /\ UNCHANGED <<inst, ctor, calls, X, Y, X_encoded, batch_size, handed>>
    /\ UNCHANGED attnVars

\* --------------------------------------------------------- Encoder.forward
\* hidden_state / cell_state at entry: torch.zeros(1, batch_size, self.m).
EncoderEntryState(b) == ZeroState(<<1, b, inst.m>>, calls + 1)

\* X_encoded at entry: torch.zeros(self.T, batch_size, self.m); no slot written.
EncoderEntryBuffer(b) ==
    [shape |-> <<inst.T, b, inst.m>>, owner |-> calls + 1,
     writes |-> [i \in 1..inst.T |-> <<>>]]

\* EncoderRange one iteration short.
EncoderRangeShort(T) == IF T - 1 > 0 THEN T - 1 ELSE 0

\* for t in range(self.T): the number of iterations.
EncoderRange(T) == IF T > 0 THEN T ELSE 0

\* Lines 66-97, one loop iteration.  Line 74 reads self.linear, which
\* Encoder.__init__ never sets (it sets WU_e): the lookup raises before the
\* argument of the call is evaluated.
EncoderIteration(self, Xs, h, c, tt, b) ==
    LET hs      == Repeat(Permute(Cat(h, c, 2), <<1, 0, 2>>), <<1, self.n, 1>>)
        tanh    == Tanh(ApplyLinear(self.layers.linear,
                        Cat(hs, Permute(Xs, <<0, 2, 1>>), 2)))
        e       == View(ApplyLinear(self.layers.v_e, tanh), <<b, self.n>>)
        alpha   == SoftmaxShape(e, 1)
        x_t     == IF IsErr(alpha) THEN Err ELSE SliceTime(Xs, tt)
        lstm_in == Unsqueeze(Mul(x_t, alpha), 0)
        new     == ApplyLSTM(self.layers.lstm, lstm_in, h, c)
    IN  IF IsErr(hs) THEN [new |-> Err, err |-> "RuntimeError"]
        ELSE IF ~HasAttr(self, "linear") THEN [new |-> Err, err |-> "AttributeError"]
        ELSE [new |-> new,
              err |-> IF ~IsErr(new) THEN ""
                      ELSE IF ~IsErr(alpha) /\ IsErr(x_t) THEN "IndexError"
                      ELSE "RuntimeError"]

\* X_encoded[t] = hidden_state[0]
WriteSlot(buf, tt, h) ==
    [buf EXCEPT !.writes[tt + 1] = Append(buf.writes[tt + 1], h.hist)]

\* encoder.forward(X): entry, lines 58-63.
EncoderCall ==
    /\ inst.cls = "Encoder"
    /\ pc = "idle"
    /\ calls < MaxCalls
    /\ \E b \in Batches, Tx \in 1..MaxT, nx \in Dims :
         /\ X' = <<b, Tx, nx>>
         /\ batch_size' = b
         /\ hidden_state' = EncoderEntryState(b)
         /\ cell_state' = EncoderEntryState(b)
         /\ X_encoded' = EncoderEntryBuffer(b)
    /\ calls' = calls + 1
    /\ t' = 0
    /\ context_vector' = NoContext
    /\ steps' = <<>>
    /\ shapes' = NoShapes
    /\ result' = NoResult
    /\ pc' = "enc"
    /\ UNCHANGED <<inst, ctor, Y, handed>>
    /\ UNCHANGED attnVars

\* One pass through the loop head: an iteration (lines 65-99), or the exit
\* and the return of X_encoded (line 101).
EncoderLoop ==
    /\ pc = "enc"
    /\ IF t < EncoderRange(inst.T)
       THEN LET it == EncoderIteration(inst, X, hidden_state.shape, cell_state.shape,
                                       t, batch_size)
            IN  IF it.err # ""
                THEN /\ result' = Raised(it.err)
                     /\ pc' = "done"
                     /\ UNCHANGED <<t, hidden_state, cell_state, steps, X_encoded>>
                ELSE /\ steps' = Append(steps, [t |-> t, hidden |-> hidden_state.hist,
                                                cell |-> cell_state.hist])
                     /\ hidden_state' = CellUpdate(hidden_state, it.new, t)
                     /\ cell_state' = CellUpdate(cell_state, it.new, t)
                     /\ X_encoded' = WriteSlot(X_encoded, t, hidden_state')
                     /\ t' = t + 1
                     /\ UNCHANGED <<result, pc>>
       ELSE /\ result' = [kind |-> "tensor", err |-> "", shape |-> X_encoded.shape,
                          hidden |-> hidden_state.hist, ctx_iter |-> -1,
                          ctx_from |-> <<>>]
            /\ pc' = "done"
            /\ UNCHANGED <<t, hidden_state, cell_state, steps, X_encoded>>
    /\ UNCHANGED <<inst, ctor, calls, X, Y, batch_size, context_vector, shapes, handed>>
    /\ UNCHANGED attnVars

\* -------------------------------------------------------------- DARNN.call
\* Lines 32-47.  h0 and s0 are tf.zeros((batch_size, self.m)); the same two
\* tensors go to self.encoder_input and to self.decoder.  EncoderInput and
\* Decoder come from da_rnn/layers.py: control passes there, and what they
\* return is not modelled.
DARNNStates(self, b, call) ==
    LET h0 == <<b, self.m>>
        s0 == <<b, self.m>>
    IN  [called |-> TRUE, owner |-> call, h0 |-> h0, s0 |-> s0,
         enc_h |-> h0, enc_s |-> s0, dec_h |-> h0, dec_s |-> s0]

DARNNCall ==
    /\ inst.cls = "DARNN"
    /\ pc = "idle"
    /\ calls < MaxCalls
    /\ \E b \in Batches, n \in Dims :
         /\ X' = <<b, inst.T, n>>
         /\ Y' = <<b, inst.T - 1, 1>>
         /\ batch_size' = b
         /\ handed' = DARNNStates(inst, b, calls + 1)
    /\ calls' = calls + 1
    /\ result' = [NoResult EXCEPT !.kind = "layers"]
    /\ pc' = "done"
    /\ UNCHANGED <<inst, ctor, X_encoded, t, hidden_state, cell_state,
                   context_vector, steps, shapes>>
    /\ UNCHANGED attnVars

\* The call is over (return or raise): its frame is gone.  The tensors it
\* allocated last are all that is left in memory, unreferenced.
Return ==
    /\ pc = "done"
    /\ pc' = "idle"
    /\ X' = Err
    /\ Y' = Err
    /\ batch_size' = 0
    /\ t' = 0
    /\ context_vector' = NoContext
    /\ steps' = <<>>
    /\ shapes' = NoShapes
    /\ result' = NoResult
    /\ handed' = NoHanded
    /\ UNCHANGED <<inst, ctor, calls, X_encoded, hidden_state, cell_state>>
    /\ UNCHANGED attnVars

Next ==
    \/ NewEncoder
    \/ NewDecoder
    \/ NewDARNN
    \/ EncoderCall
    \/ EncoderLoop
    \/ DecoderCall
    \/ DecoderLoop
    \/ DARNNCall
    \/ Return

Spec == Init /\ [][Next]_vars

\* ------------------------------------------------------ attention weights
\* A score matrix is a sequence of rows (axis 0, the batch) of scores (axis 1).
\* A weight is the exact fraction num / den.  The exponential is taken to base
\* 2: positivity and normalisation are those of any base.
RECURSIVE Exp2(_)
Exp2(x) == IF x = 0 THEN 1 ELSE 2 * Exp2(x - 1)

RECURSIVE SumOver(_, _)
SumOver(f, n) == IF n = 0 THEN 0 ELSE f[n] + SumOver(f, n - 1)

\* torch.softmax(scores, dim) of a 2-axis tensor: the exponentials are
\* normalised along axis dim.
Softmax(scores, dim) ==
    LET rows == Len(scores)
        cols == Len(scores[1])
        ex   == [i \in 1..rows |-> [j \in 1..cols |-> Exp2(scores[i][j])]]
    IN  [i \in 1..rows |->
          [j \in 1..cols |->
            [num |-> ex[i][j],
             den |-> IF dim = 1
                     THEN SumOver(ex[i], cols)
                     ELSE SumOver([k \in 1..rows |-> ex[k][j]], rows)]]]

\* Equation 9: Alpha_t = torch.softmax(E, 1)
InputAttention(scores) == Softmax(scores, 1)

\* TemporalAttention normalised along the batch axis.
TemporalAttentionOverBatch(scores) == Softmax(scores, 0)

\* Equation 13: Beta_t = torch.softmax(l, 1)
TemporalAttention(scores) == Softmax(scores, 1)

Scores == 0..MaxScore

ScoreMatrices(axis) ==
    UNION {[1..b -> [1..k -> Scores]] : b \in Batches, k \in axis}

InitAttn ==
    /\ inst = NoInst
    /\ ctor = [cls |-> "none", T |-> 0, outcome |-> "none"]
    /\ pc = "idle"
    /\ calls = 0
    /\ X = Err
    /\ Y = Err
    /\ X_encoded = NoBuffer
    /\ batch_size = 0
    /\ t = 0
    /\ hidden_state = NoState
    /\ cell_state = NoState
    /\ context_vector = NoContext
    /\ steps = <<>>
    /\ shapes = NoShapes
    /\ result = NoResult
    /\ handed = NoHanded
    /\ E \in ScoreMatrices(1..MaxT)
    /\ Alpha_t = <<>>
    /\ Beta_t = <<>>

\* Encoder.forward line 86, on scores E of shape (batch, n).
EncoderAttention ==
    /\ Alpha_t = <<>>
    /\ Len(E[1]) <= MaxDim
    /\ Alpha_t' = InputAttention(E)
    /\ UNCHANGED <<inst, ctor, E, Beta_t>>
    /\ UNCHANGED callVars

\* Decoder.forward line 189, on scores l of shape (batch, T).
DecoderAttention ==
    /\ Beta_t = <<>>
    /\ Beta_t' = TemporalAttention(E)
    /\ UNCHANGED <<inst, ctor, E, Alpha_t>>
    /\ UNCHANGED callVars

NextAttn ==
    \/ EncoderAttention
    \/ DecoderAttention

SpecAttn == InitAttn /\ [][NextAttn]_vars

\* The product of the denominators of a row of weights.
RECURSIVE DenProduct(_, _)
DenProduct(row, n) == IF n = 0 THEN 1 ELSE row[n].den * DenProduct(row, n - 1)

\* The sum of a row of fractions is exactly 1.
SumsToOne(row) ==
    LET n   == Len(row)
        all == DenProduct(row, n)
    IN  /\ all > 0
        /\ SumOver([j \in 1..n |-> row[j].num * (all \div row[j].den)], n) = all

NonNegative(row) == \A j \in 1..Len(row) : row[j].num >= 0 /\ row[j].den > 0

IsDistribution(w) == \A i \in 1..Len(w) : NonNegative(w[i]) /\ SumsToOne(w[i])

\* ------------------------------------------------------------------ claims
IsValidEncoderCall ==
    /\ inst.cls = "Encoder"
    /\ inst.T >= 2
    /\ X = <<batch_size, inst.T, inst.n>>

IsValidDecoderCall ==
    /\ inst.cls = "Decoder"
    /\ inst.T >= 2
    /\ Y = <<batch_size, inst.T - 1, inst.y_dim>>
    /\ X_encoded.shape = <<inst.T, batch_size, inst.m>>

\* <<0, 1, ..., k - 1>>
Upto(k) == [i \in 1..k |-> i - 1]

\* C1: for every valid configuration (T >= 2) and every X of shape
\* (batch, T, n), Encoder.forward returns a tensor of shape (T, batch, m).
C1_EncoderReturnsEncoded ==
    (pc = "done" /\ IsValidEncoderCall)
        => /\ result.kind = "tensor"
           /\ result.shape = <<inst.T, batch_size, inst.m>>

C3_NoInstanceBelowTwo ==
    /\ ctor.outcome = "ok" => ctor.T >= 2
    /\ inst.cls # "none" => inst.T >= 2

\* The result of Decoder.forward on these arguments when it starts from the
\* given state: the call replayed as a function of its arguments.
RECURSIVE DecoderFrom(_, _, _, _, _, _, _)
DecoderFrom(self, Yshape, Xe, h, c, ctx, tt) ==
    IF tt < DecoderRange(self.T)
    THEN LET it == DecoderIteration(self, Yshape, Xe, h.shape, c.shape, tt, Yshape[1])
         IN  IF it.err # "" THEN Raised(it.err)
             ELSE DecoderFrom(self, Yshape, Xe,
                              CellUpdate(h, it.new, tt), CellUpdate(c, it.new, tt),
                              [bound |-> TRUE, shape |-> it.context, iter |-> tt,
                               from |-> h.hist],
                              tt + 1)
    ELSE DecoderFinish(self, h, ctx)

\* C4: whatever calls came before on the instance, the hidden and cell state
\* fed into step 0 of a forward call are zero tensors allocated by that call,
\* the encoder's X_encoded buffer is allocated by that call with no slot
\* written, the states DARNN.call hands on are allocated by that call, and the
\* decoder's result is the one the same arguments give from the zero state.
C4_FreshZeroState ==
    /\ (pc \in {"enc", "dec"} /\ t = 0) =>
          /\ hidden_state.hist = <<>> /\ hidden_state.owner = calls
          /\ cell_state.hist = <<>> /\ cell_state.owner = calls
    /\ (pc = "enc" /\ t = 0) =>
          /\ X_encoded.owner = calls
          /\ \A i \in 1..Len(X_encoded.writes) : X_encoded.writes[i] = <<>>
    /\ handed.called => handed.owner = calls
    /\ (pc = "done" /\ inst.cls = "Decoder") =>
          result = DecoderFrom(inst, Y, X_encoded.shape,
                               ZeroState(<<1, Y[1], inst.p>>, 0),
                               ZeroState(<<1, Y[1], inst.p>>, 0), NoContext, 0)

C4_Witness ==
    /\ calls = 2
    /\ pc = "dec" /\ t = 0
    /\ IsValidDecoderCall
    /\ hidden_state.hist = <<>>

\* C5: the Equation 22 output pairs the hidden state after all T-1 cell
\* updates with the context vector of iteration t = T-2, which was built from
\* the state before that iteration's update.
C5_FinalContext ==
    (pc = "done" /\ inst.cls = "Decoder" /\ result.kind = "tensor") =>
        /\ result.hidden = Upto(inst.T - 1)
        /\ result.ctx_iter = inst.T - 2
        /\ result.ctx_from = Upto(inst.T - 2)

C5_Witness ==
    /\ pc = "done" /\ inst.cls = "Decoder" /\ result.kind = "tensor"
    /\ inst.T = 3
    /\ result.ctx_iter = 1 /\ Len(result.hidden) = 2

\* C6: Decoder.forward raises whenever the time axis of Y differs from T-1
\* (fewer steps or more) or the last axis of Y differs from y_dim.
C6_BadYRaises ==
    (/\ pc = "done"
     /\ inst.cls = "Decoder"
     /\ (Y[2] # inst.T - 1 \/ Y[3] # inst.y_dim))
        => result.kind = "error"

C8_AttentionIsDistribution ==
    /\ Alpha_t # <<>> => IsDistribution(Alpha_t)
    /\ Beta_t # <<>> => IsDistribution(Beta_t)

C8_Witness ==
    /\ Alpha_t # <<>>
    /\ Beta_t # <<>>
    /\ Len(E) = 2
    /\ E[1] = <<0, 1>>
    /\ E[2] = <<1, 1>>

\* Every executed iteration i took the pair the previous one produced.
ChainedSteps ==
    \A i \in 1..Len(steps) :
        /\ steps[i].t = i - 1
        /\ steps[i].hidden = Upto(i - 1)
        /\ steps[i].cell = Upto(i - 1)

\* C9: a forward pass ends after exactly T encoder steps (T-1 decoder steps),
\* in increasing t, each taking the pair the previous step produced, and each
\* slot X_encoded[t] is written exactly once, by step t.
C9_ExactSteps ==
    /\ ChainedSteps
    /\ (pc = "done" /\ IsValidDecoderCall) => Len(steps) = inst.T - 1
    /\ (pc = "done" /\ IsValidEncoderCall) =>
          /\ Len(steps) = inst.T
          /\ \A i \in 1..inst.T : X_encoded.writes[i] = <<Upto(i)>>

\* The decoder half of C9 alone.
C9_DecoderSteps ==
    /\ inst.cls = "Decoder" => ChainedSteps
    /\ (pc = "done" /\ IsValidDecoderCall) => Len(steps) = inst.T - 1

\* C10: the decoder's hidden and cell state are (batch, p) at every step, the
\* initial state handed to the decoder included, in Decoder.forward and in
\* DARNN.call.
C10_DecoderStateShape ==
    /\ (pc = "dec") =>
          /\ Squeeze(hidden_state.shape, 0) = <<batch_size, inst.p>>
          /\ Squeeze(cell_state.shape, 0) = <<batch_size, inst.p>>
    /\ handed.called =>
          /\ handed.dec_h = <<batch_size, inst.p>>
          /\ handed.dec_s = <<batch_size, inst.p>>

\* The Decoder.forward half of C10 alone.
C10_TorchDecoderStateShape ==
    (pc = "dec") =>
        /\ Squeeze(hidden_state.shape, 0) = <<batch_size, inst.p>>
        /\ Squeeze(cell_state.shape, 0) = <<batch_size, inst.p>>

====
